---- MODULE Spec2Model ----
(***************************************************************************)
(* A model of go-art, an Adaptive Radix Tree: the node variants with their *)
(* lookup / add / remove / grow / shrink primitives (art_node.go) and the  *)
(* tree operations Search, PrefixSearch, Insert, Remove and Each           *)
(* (art_tree.go).                                                          *)
(*                                                                         *)
(* Conventions.  A Go slice or array is a sequence; Go index i is TLA+     *)
(* index i+1 and is always read through At / written through Put.  A       *)
(* *ArtNode is either Nil or the record of the node it points to; every    *)
(* node has exactly one owner slot, so "*n = *other" and "*currentRef = x" *)
(* are modelled as the slot taking a new value.  A Go run-time panic       *)
(* (index out of range, nil dereference) is an explicit outcome.           *)
(***************************************************************************)
EXTENDS Integers, Sequences, FiniteSets, TLC

(***************************************************************************)
(* Program constants (art_node.go).                                        *)
(***************************************************************************)
NODE4 == 0
NODE16 == 1
NODE48 == 2
NODE256 == 3
LEAF == 4

NODE4MIN == 2
NODE4MAX == 4
NODE16MIN == 5
NODE16MAX == 16
NODE48MIN == 17
NODE48MAX == 48
NODE256MIN == 49
NODE256MAX == 256

MAX_PREFIX_LEN == 10

\* Number of values of a byte, and of the uint8 size field.
ByteRange == NODE256MAX

(***************************************************************************)
(* Go values.                                                              *)
(***************************************************************************)
\* The nil *ArtNode.
Nil == [nodeType |-> LEAF + 1]

\* The outcome "the call panicked", where a node is expected.
PanicNode == [nodeType |-> LEAF + 2]

\* The outcome "the call panicked", where an int is expected.
PanicInt == 0 - 1

\* The nil interface{} value.  A value is a tuple, so that values compare with
\* each other.
NilValue == <<"nil">>

\* The outcome "the call panicked", where a value is expected.
PanicValue == <<"panic">>

\* The outcome "the call panicked", where a slice of values is expected.
PanicSlice == <<PanicValue>>

At(s, i) == s[i + 1]

Put(s, i, v) == [s EXCEPT ![i + 1] = v]

\* The Go slice expression s[d:].
From(s, d) == SubSeq(s, d + 1, Len(s))

\* make([]T, n): n zero values.
Make(n, zero) == [i \in 1..n |-> zero]

min(a, b) == IF a < b THEN a ELSE b

memcpy(dest, src, numBytes) ==
    [i \in 1..Len(dest) |-> IF i <= numBytes /\ i <= Len(src) THEN src[i] ELSE dest[i]]

\* memmove has no bounds check of its own: it panics when numBytes exceeds a slice.
memmovePanics(dest, src, numBytes) == numBytes > Len(src) \/ numBytes > Len(dest)

memmove(dest, src, numBytes) ==
    [i \in 1..Len(dest) |-> IF i <= numBytes /\ i <= Len(src) THEN src[i] ELSE dest[i]]

(***************************************************************************)
(* Nodes (art_node.go).                                                    *)
(***************************************************************************)
\* Mutation of NewLeafNode: the leaf keeps the slice it was given, so its key
\* lives in the caller's array.
NewLeafNodeSharedKey(key, value) ==
    [nodeType |-> LEAF, keys |-> <<>>, children |-> <<>>, prefix |-> <<>>,
     prefixLen |-> 0, size |-> 0, key |-> key, value |-> value,
     keyArray |-> "caller"]

\* keyArray is the array the key of the leaf lives in: newKey, the array
\* NewLeafNode makes and copies the key into.
NewLeafNode(key, value) ==
    [nodeType |-> LEAF, keys |-> <<>>, children |-> <<>>, prefix |-> <<>>,
     prefixLen |-> 0, size |-> 0, key |-> key, value |-> value,
     keyArray |-> "newKey"]

NewNode4 ==
    [nodeType |-> NODE4, keys |-> Make(NODE4MAX, 0), children |-> Make(NODE4MAX, Nil),
     prefix |-> Make(MAX_PREFIX_LEN, 0), prefixLen |-> 0, size |-> 0,
     key |-> <<>>, value |-> NilValue]

NewNode16 ==
    [nodeType |-> NODE16, keys |-> Make(NODE16MAX, 0), children |-> Make(NODE16MAX, Nil),
     prefix |-> Make(MAX_PREFIX_LEN, 0), prefixLen |-> 0, size |-> 0,
     key |-> <<>>, value |-> NilValue]

NewNode48 ==
    [nodeType |-> NODE48, keys |-> Make(ByteRange, 0), children |-> Make(NODE48MAX, Nil),
     prefix |-> Make(MAX_PREFIX_LEN, 0), prefixLen |-> 0, size |-> 0,
     key |-> <<>>, value |-> NilValue]

NewNode256 ==
    [nodeType |-> NODE256, keys |-> <<>>, children |-> Make(NODE256MAX, Nil),
     prefix |-> Make(MAX_PREFIX_LEN, 0), prefixLen |-> 0, size |-> 0,
     key |-> <<>>, value |-> NilValue]

\* Mutation of MinSize: a NODE16 shrinks one removal too late.
MinSizeLate(n) ==
    CASE n.nodeType = NODE4 -> NODE4MIN
      [] n.nodeType = NODE16 -> NODE16MIN - 1
      [] n.nodeType = NODE48 -> NODE48MIN
      [] n.nodeType = NODE256 -> NODE256MIN
      [] OTHER -> 0

MinSize(n) ==
    CASE n.nodeType = NODE4 -> NODE4MIN
      [] n.nodeType = NODE16 -> NODE16MIN
      [] n.nodeType = NODE48 -> NODE48MIN
      [] n.nodeType = NODE256 -> NODE256MIN
      [] OTHER -> 0

MaxSize(n) ==
    CASE n.nodeType = NODE4 -> NODE4MAX
      [] n.nodeType = NODE16 -> NODE16MAX
      [] n.nodeType = NODE48 -> NODE48MAX
      [] n.nodeType = NODE256 -> NODE256MAX
      [] OTHER -> 0

\* Mutation of IsFull: a node counts as full one child too early.
IsFullEarly(n) == n.size + 1 >= MaxSize(n)

\* size is a uint8, so it never equals the 256 of a NODE256.
IsFull(n) == n.size = MaxSize(n)

IsLeaf(n) == n.nodeType = LEAF

\* Mutation of IsMatch: the key of the leaf is not compared.
IsMatchAnyLeaf(n, key) == n.nodeType = LEAF

IsMatch(n, key) == n.nodeType = LEAF /\ n.key = key

\* Mutation of copyMeta: the size is copied, the compressed path is not.
copyMetaSizeOnly(n, other) == [n EXCEPT !.size = other.size]

copyMeta(n, other) ==
    [n EXCEPT !.size = other.size, !.prefix = other.prefix, !.prefixLen = other.prefixLen]

\* sort.Search(n, f): binary search for the smallest i in [0, n) with f(i), else n.
\* Here f(i) is keys[i] >= key.
RECURSIVE sortSearch(_, _, _, _)
sortSearch(keys, key, lo, hi) ==
    IF lo < hi
    THEN LET h == (lo + hi) \div 2
         IN  IF ~(At(keys, h) >= key)
             THEN sortSearch(keys, key, h + 1, hi)
             ELSE sortSearch(keys, key, lo, h)
    ELSE lo

Index(n, key) ==
    CASE n.nodeType = NODE4 ->
           LET hits == {i \in 0..(n.size - 1) : i < Len(n.keys) /\ At(n.keys, i) = key}
           IN  IF hits = {} THEN 0 - 1 ELSE CHOOSE i \in hits : \A j \in hits : i <= j
      [] n.nodeType = NODE16 ->
           LET index == sortSearch(n.keys, key, 0, n.size)
           IN  IF index < Len(n.keys) /\ At(n.keys, index) = key THEN index ELSE 0 - 1
      [] n.nodeType = NODE48 ->
           LET index == At(n.keys, key)
           IN  IF index > 0 THEN index - 1 ELSE 0 - 1
      [] n.nodeType = NODE256 -> key
      [] OTHER -> 0 - 1

\* The index in n.children of the slot FindChild returns a pointer to, or -1 when
\* it returns a pointer to the local nullNode.
FindChildSlot(n, key) ==
    IF n = Nil THEN 0 - 1
    ELSE CASE n.nodeType \in {NODE4, NODE16, NODE48} -> Index(n, key)
           [] n.nodeType = NODE256 ->
                IF At(n.children, key) # Nil THEN key ELSE 0 - 1
           [] OTHER -> 0 - 1

\* *(n.FindChild(key))
FindChild(n, key) ==
    LET slot == FindChildSlot(n, key)
    IN  IF slot >= 0 THEN At(n.children, slot) ELSE Nil

\* Mutation of FirstFree: the last index of children holding nil.
LastFree(children) ==
    CHOOSE i \in 0..(Len(children) - 1) :
        /\ At(children, i) = Nil
        /\ \A j \in (i + 1)..(Len(children) - 1) : At(children, j) # Nil

\* The first index of children holding nil (the scan of AddChild and grow for NODE48).
FirstFree(children) ==
    CHOOSE i \in 0..(Len(children) - 1) :
        /\ At(children, i) = Nil
        /\ \A j \in 0..(i - 1) : At(children, j) # Nil

\* grow of a NODE16: the children move to the first free slots of a NODE48, one by one.
RECURSIVE grow16(_, _, _)
grow16(n, other, i) ==
    IF i < n.size
    THEN LET child == At(n.children, i)
         IN  IF child # Nil
             THEN LET index == FirstFree(other.children)
                  IN  grow16(n, [other EXCEPT !.children = Put(@, index, child),
                                              !.keys = Put(@, At(n.keys, i), index + 1)],
                             i + 1)
             ELSE grow16(n, other, i + 1)
    ELSE other

grow(n) ==
    CASE n.nodeType = NODE4 ->
           LET other == copyMeta(NewNode16, n)
           IN  [other EXCEPT
                  !.keys = [i \in 1..NODE16MAX |-> IF i <= n.size THEN n.keys[i] ELSE @[i]],
                  !.children = [i \in 1..NODE16MAX |->
                                   IF i <= n.size THEN n.children[i] ELSE @[i]]]
      [] n.nodeType = NODE16 -> grow16(n, copyMeta(NewNode48, n), 0)
      [] n.nodeType = NODE48 ->
           LET other == copyMeta(NewNode256, n)
           IN  [other EXCEPT
                  !.children = [i \in 1..NODE256MAX |-> FindChild(n, i - 1)]]
      [] OTHER -> n

\* Mutation of addChildNotFull: a NODE4 and a NODE16 take the new child after
\* the children they have.
addChildAtEnd(n, key, node) ==
    CASE n.nodeType \in {NODE4, NODE16} ->
           [n EXCEPT !.keys = Put(@, n.size, key),
                     !.children = Put(@, n.size, node),
                     !.size = (n.size + 1) % ByteRange]
      [] n.nodeType = NODE48 ->
           LET index == FirstFree(n.children)
           IN  [n EXCEPT !.children = Put(@, index, node),
                         !.keys = Put(@, key, index + 1),
                         !.size = (n.size + 1) % ByteRange]
      [] n.nodeType = NODE256 ->
           [n EXCEPT !.children = Put(@, key, node),
                     !.size = (n.size + 1) % ByteRange]
      [] OTHER -> n

\* AddChild on a node that is not full.
addChildNotFull(n, key, node) ==
    CASE n.nodeType \in {NODE4, NODE16} ->
           LET index ==
                 IF n.nodeType = NODE4
                 THEN LET above == {i \in 0..(n.size - 1) : key < At(n.keys, i)}
                      IN  IF above = {} THEN n.size
                          ELSE CHOOSE i \in above : \A j \in above : i <= j
                 ELSE sortSearch(n.keys, key, 0, n.size)
               moved(i) == i > index /\ i <= n.size /\ At(n.keys, i - 1) > key
           IN  [n EXCEPT
                  !.keys = [i \in 1..Len(n.keys) |->
                              IF i - 1 = index THEN key
                              ELSE IF moved(i - 1) THEN n.keys[i - 1] ELSE n.keys[i]],
                  !.children = [i \in 1..Len(n.children) |->
                              IF i - 1 = index THEN node
                              ELSE IF moved(i - 1) THEN n.children[i - 1] ELSE n.children[i]],
                  !.size = (n.size + 1) % ByteRange]
      [] n.nodeType = NODE48 ->
           LET index == FirstFree(n.children)
           IN  [n EXCEPT !.children = Put(@, index, node),
                         !.keys = Put(@, key, index + 1),
                         !.size = (n.size + 1) % ByteRange]
      [] n.nodeType = NODE256 ->
           [n EXCEPT !.children = Put(@, key, node),
                     !.size = (n.size + 1) % ByteRange]
      [] OTHER -> n

AddChild(n, key, node) ==
    IF n.nodeType = NODE256
    THEN IF ~IsFull(n) THEN addChildNotFull(n, key, node) ELSE n
    ELSE IF ~IsFull(n)
         THEN addChildNotFull(n, key, node)
         ELSE addChildNotFull(grow(n), key, node)

\* RemoveChild for NODE4 and NODE16 once idx >= 0: the suffix moves left by one.
removeAt(n, idx) ==
    LET last == n.size - 1
    IN  [n EXCEPT
           !.keys = [i \in 1..Len(n.keys) |->
                       IF i - 1 >= idx /\ i - 1 < last THEN n.keys[i + 1]
                       ELSE IF i - 1 = idx \/ i - 1 = last THEN 0 ELSE n.keys[i]],
           !.children = [i \in 1..Len(n.children) |->
                       IF i - 1 >= idx /\ i - 1 < last THEN n.children[i + 1]
                       ELSE IF i - 1 = idx \/ i - 1 = last THEN Nil ELSE n.children[i]],
           !.size = (n.size + ByteRange - 1) % ByteRange]

\* The byte at position r (from 0) of the set of bytes used, in ascending order.
ByteAt(used, r) == CHOOSE i \in used : Cardinality({j \in used : j < i}) = r

\* shrink of a NODE48: the loop over the bytes 0..255 appends the children that
\* are present to other, in ascending byte order.
shrink48(n, other) ==
    LET used == {i \in 0..(Len(n.keys) - 1) :
                    At(n.keys, i) > 0 /\ At(n.children, At(n.keys, i) - 1) # Nil}
        count == Cardinality(used)
    IN  IF count > Len(other.children) THEN PanicNode
        ELSE [other EXCEPT
                !.keys = [r \in 1..Len(other.keys) |->
                            IF r <= count THEN ByteAt(used, r - 1) ELSE @[r]],
                !.children = [r \in 1..Len(other.children) |->
                            IF r <= count
                            THEN At(n.children, At(n.keys, ByteAt(used, r - 1)) - 1)
                            ELSE @[r]],
                !.size = count]

\* shrink of a NODE256: the loop over the bytes 0..255 puts the children that are
\* present into the slots 0, 1, ... of other, in ascending byte order.
shrink256(n, other) ==
    LET used == {i \in 0..(Len(n.children) - 1) : At(n.children, i) # Nil}
        count == Cardinality(used)
    IN  IF count > Len(other.children) THEN PanicNode
        ELSE [other EXCEPT
                !.keys = [b \in 1..Len(other.keys) |->
                            IF b - 1 \in used
                            THEN Cardinality({j \in used : j < b - 1}) + 1
                            ELSE @[b]],
                !.children = [r \in 1..Len(other.children) |->
                            IF r <= count THEN At(n.children, ByteAt(used, r - 1))
                            ELSE @[r]],
                !.size = count]

\* Mutation of shrink: the node stays as it is.
shrinkNever(n) == n

\* Mutation of shrink: the only child of a NODE4 takes its place as it is, the
\* compressed path is not adjusted.
shrinkKeepPrefix(n) == IF n.nodeType = NODE4 THEN At(n.children, 0) ELSE n

\* Mutation of shrink: the prefixLen of the inner child that takes the place
\* of a NODE4 is capped at MAX_PREFIX_LEN.
shrinkCapPrefixLen(n) ==
    IF n.nodeType = NODE4
    THEN LET other == At(n.children, 0)
         IN  IF IsLeaf(other) THEN copyMeta(other, n)
             ELSE [other EXCEPT
                     !.prefix = memcpy(@, n.prefix, min(n.prefixLen, MAX_PREFIX_LEN)),
                     !.prefixLen = min(@ + n.prefixLen + 1, MAX_PREFIX_LEN)]
    ELSE n

\* The node that takes n's place ("n.replaceWith(other)").
shrink(n) ==
    CASE n.nodeType = NODE4 ->
           LET other == At(n.children, 0)
           IN  IF other = Nil THEN PanicNode
               ELSE IF ~IsLeaf(other)
               THEN LET len0 == n.prefixLen
                        prefix1 == IF len0 < MAX_PREFIX_LEN
                                   THEN Put(n.prefix, len0, At(n.keys, 0))
                                   ELSE n.prefix
                        len1 == IF len0 < MAX_PREFIX_LEN THEN len0 + 1 ELSE len0
                        childPrefixLen == min(other.prefixLen, MAX_PREFIX_LEN - len1)
                        prefix2 == IF len1 < MAX_PREFIX_LEN
                                   THEN SubSeq(prefix1, 1, len1)
                                          \o memcpy(From(prefix1, len1), other.prefix,
                                                    childPrefixLen)
                                   ELSE prefix1
                        len2 == IF len1 < MAX_PREFIX_LEN THEN len1 + childPrefixLen ELSE len1
                    IN  [other EXCEPT
                           !.prefix = memcpy(@, prefix2, min(len2, MAX_PREFIX_LEN)),
                           !.prefixLen = @ + n.prefixLen + 1]
               ELSE copyMeta(other, n)
      [] n.nodeType = NODE16 ->
           LET other == copyMeta(NewNode4, n)
           IN  [other EXCEPT
                  !.keys = [i \in 1..NODE4MAX |-> n.keys[i]],
                  !.children = [i \in 1..NODE4MAX |-> n.children[i]],
                  !.size = NODE4MAX]
      [] n.nodeType = NODE48 ->
           shrink48(n, [copyMeta(NewNode16, n) EXCEPT !.size = 0])
      [] n.nodeType = NODE256 ->
           shrink256(n, [copyMeta(NewNode48, n) EXCEPT !.size = 0])
      [] OTHER -> n

\* The node that stands in n's place after n.RemoveChild(key), or PanicNode.
RemoveChild(n, key) ==
    LET idx == Index(n, key)
        removed ==
          CASE n.nodeType \in {NODE4, NODE16} ->
                 IF idx < 0 \/ n.size = 0 THEN PanicNode ELSE removeAt(n, idx)
            [] n.nodeType = NODE48 ->
                 IF idx >= 0 /\ At(n.children, idx) # Nil
                 THEN [n EXCEPT !.children = Put(@, idx, Nil),
                                !.keys = Put(@, key, 0),
                                !.size = (n.size + ByteRange - 1) % ByteRange]
                 ELSE n
            [] n.nodeType = NODE256 ->
                 IF At(n.children, idx) # Nil
                 THEN [n EXCEPT !.children = Put(@, idx, Nil),
                                !.size = (n.size + ByteRange - 1) % ByteRange]
                 ELSE n
            [] OTHER -> n
    IN  IF removed = PanicNode THEN PanicNode
        ELSE IF removed.size < MinSize(removed) THEN shrink(removed)
        ELSE removed

LongestCommonPrefix(n, other, depth) ==
    LET limit == min(Len(n.key), Len(other.key)) - depth
        diff == {i \in 0..(limit - 1) : At(n.key, depth + i) # At(other.key, depth + i)}
    IN  IF diff = {} THEN (IF limit > 0 THEN limit ELSE 0)
        ELSE CHOOSE i \in diff : \A j \in diff : i <= j

\* The leaf Minimum returns, Nil when it returns nil, PanicNode when it panics.
RECURSIVE Minimum(_)
Minimum(n) ==
    IF n = Nil THEN Nil
    ELSE CASE n.nodeType = LEAF -> n
           [] n.nodeType \in {NODE4, NODE16} -> Minimum(At(n.children, 0))
           [] n.nodeType = NODE48 ->
                LET used == {i \in 0..(Len(n.keys) - 1) : At(n.keys, i) # 0}
                IN  IF used = {} THEN PanicNode
                    ELSE LET i == CHOOSE i \in used : \A j \in used : i <= j
                         IN  Minimum(At(n.children, At(n.keys, i) - 1))
           [] n.nodeType = NODE256 ->
                LET used == {i \in 0..(Len(n.children) - 1) : At(n.children, i) # Nil}
                IN  IF used = {} THEN PanicNode
                    ELSE Minimum(At(n.children, CHOOSE i \in used : \A j \in used : i <= j))
           [] OTHER -> n

\* Mutation of Maximum: in a NODE48 the child in the last slot in use is taken,
\* not the child of the largest byte.
RECURSIVE MaximumBySlot(_)
MaximumBySlot(n) ==
    IF n = Nil THEN Nil
    ELSE CASE n.nodeType = LEAF -> n
           [] n.nodeType \in {NODE4, NODE16} ->
                IF n.size = 0 \/ n.size > Len(n.children) THEN PanicNode
                ELSE MaximumBySlot(At(n.children, n.size - 1))
           [] n.nodeType = NODE48 ->
                LET used == {i \in 0..(Len(n.children) - 1) : At(n.children, i) # Nil}
                IN  IF used = {} THEN PanicNode
                    ELSE MaximumBySlot(At(n.children, CHOOSE i \in used : \A j \in used : i >= j))
           [] n.nodeType = NODE256 ->
                LET used == {i \in 1..(Len(n.children) - 1) : At(n.children, i) # Nil}
                    i == IF used = {} THEN 0 ELSE CHOOSE i \in used : \A j \in used : i >= j
                IN  MaximumBySlot(At(n.children, i))
           [] OTHER -> n

RECURSIVE Maximum(_)
Maximum(n) ==
    IF n = Nil THEN Nil
    ELSE CASE n.nodeType = LEAF -> n
           [] n.nodeType \in {NODE4, NODE16} ->
                IF n.size = 0 \/ n.size > Len(n.children) THEN PanicNode
                ELSE Maximum(At(n.children, n.size - 1))
           [] n.nodeType = NODE48 ->
                LET used == {i \in 0..(Len(n.keys) - 1) : At(n.keys, i) # 0}
                IN  IF used = {} THEN PanicNode
                    ELSE LET i == CHOOSE i \in used : \A j \in used : i >= j
                         IN  Maximum(At(n.children, At(n.keys, i) - 1))
           [] n.nodeType = NODE256 ->
                LET used == {i \in 1..(Len(n.children) - 1) : At(n.children, i) # Nil}
                    i == IF used = {} THEN 0 ELSE CHOOSE i \in used : \A j \in used : i >= j
                IN  Maximum(At(n.children, i))
           [] OTHER -> n

\* The loop of PrefixMismatch from index on, comparing against prefix.
RECURSIVE prefixMismatchFrom(_, _, _, _, _)
prefixMismatchFrom(n, key, depth, index, prefix) ==
    IF index < n.prefixLen /\ depth + index < Len(key)
    THEN IF index >= Len(prefix) THEN PanicInt
         ELSE IF At(key, depth + index) = At(prefix, index)
         THEN IF index = MAX_PREFIX_LEN - 1
              THEN LET m == Minimum(n)
                   IN  IF m = Nil \/ m = PanicNode \/ depth > Len(m.key) THEN PanicInt
                       ELSE prefixMismatchFrom(n, key, depth, index + 1, From(m.key, depth))
              ELSE prefixMismatchFrom(n, key, depth, index + 1, prefix)
         ELSE index
    ELSE index

\* Mutation of PrefixMismatch: only the bytes of the inline prefix are compared.
PrefixMismatchInline(n, key, depth) ==
    prefixMismatchFrom([n EXCEPT !.prefixLen = min(@, MAX_PREFIX_LEN)], key, depth,
                       0, n.prefix)

\* The index PrefixMismatch returns, or PanicInt.
PrefixMismatch(n, key, depth) == prefixMismatchFrom(n, key, depth, 0, n.prefix)

(***************************************************************************)
(* Tree operations (art_tree.go).  A helper that rewrites a slot returns   *)
(* [ref: the node now in the slot, delta: the change of t.size,            *)
(*  panic: whether the call panicked].                                     *)
(***************************************************************************)
Done(ref, delta) == [ref |-> ref, delta |-> delta, panic |-> FALSE]

\* A panic: the slot keeps what had been written to it before.
Panicked(ref) == [ref |-> ref, delta |-> 0, panic |-> TRUE]

HasZero(key) == \E i \in 1..Len(key) : key[i] = 0

\* Mutation of ensureNullTerminatedKey: the terminator is appended to every key.
ensureAlwaysAppend(key) == Append(key, 0)

ensureNullTerminatedKey(key) == IF HasZero(key) THEN key ELSE Append(key, 0)

\* The node searchHelper returns, Nil, or PanicNode.
RECURSIVE searchHelper(_, _, _)
searchHelper(current, key, depth) ==
    IF current = Nil THEN Nil
    ELSE LET maxKeyIndex == Len(key) - 1
         IN  IF depth > maxKeyIndex THEN current
             ELSE IF /\ IsLeaf(current)
                     /\ Len(current.key) >= Len(key)
                     /\ key = SubSeq(current.key, 1, Len(key))
             THEN current
             ELSE LET prefixMismatch == PrefixMismatch(current, key, depth)
                      depth2 == depth + current.prefixLen
                  IN  IF prefixMismatch = PanicInt THEN PanicNode
                      ELSE IF prefixMismatch = current.prefixLen
                      THEN IF depth2 > maxKeyIndex THEN current
                           ELSE searchHelper(FindChild(current, At(key, depth2)),
                                             key, depth2 + 1)
                      ELSE IF prefixMismatch = Len(key) - depth THEN current
                      ELSE Nil

\* The value t.Search(key0) returns where t.root = t, NilValue, or PanicValue.
SearchResult(t, key0) ==
    LET key == ensureNullTerminatedKey(key0)
        foundNode == searchHelper(t, key, 0)
    IN  IF foundNode = PanicNode THEN PanicValue
        ELSE IF foundNode # Nil /\ IsMatch(foundNode, key) THEN foundNode.value
        ELSE NilValue

\* Mutation of eachChild: a NODE48 is walked by slot, like the other variants.
eachChildBySlot(current, i) ==
    IF i < Len(current.children) THEN At(current.children, i) ELSE Nil

\* The child ("next") iteration i of the loop of eachHelper recurses into, Nil
\* when it recurses into none.
eachChild(current, i) ==
    IF current.nodeType = NODE48
    THEN LET index == At(current.keys, i)
         IN  IF index > 0 THEN At(current.children, index - 1) ELSE Nil
    ELSE At(current.children, i)

\* Mutation of eachSend: the node is sent after the nodes below it.
eachSendAfter(current, below) == below \o <<current>>

\* "dest <- current" ahead of the loops of eachHelper: current is sent before
\* the nodes the loops send.
eachSend(current, below) == <<current>> \o below

\* The nodes eachHelper sends to dest, in order.
RECURSIVE eachHelper(_)
RECURSIVE eachRange(_, _, _)
eachHelper(current) ==
    IF current = Nil THEN <<>>
    ELSE eachSend(current,
                  eachRange(current, 0,
                            IF current.nodeType = NODE48 THEN Len(current.keys)
                            ELSE Len(current.children)))

\* The iterations lo .. hi-1 of the loop of eachHelper over current: over the
\* bytes for a NODE48, over the children array otherwise.
eachRange(current, lo, hi) ==
    IF hi <= lo THEN <<>>
    ELSE IF hi = lo + 1
    THEN eachHelper(eachChild(current, lo))
    ELSE LET mid == (lo + hi) \div 2
         IN  eachRange(current, lo, mid) \o eachRange(current, mid, hi)

\* The nodes the callback of Each receives, in order.
Each(t) == eachHelper(t)

\* The Results EachChanResultFrom sends, in order.
EachChanResultFrom(start) ==
    LET nodes == eachHelper(start)
    IN  SelectSeq(nodes, IsLeaf)

\* The slice t.PrefixSearch(key) returns where t.root = t, or PanicSlice.
PrefixSearchResult(t, key) ==
    LET start == searchHelper(t, key, 0)
    IN  IF start = PanicNode THEN PanicSlice
        ELSE LET results == EachChanResultFrom(start)
             IN  [i \in 1..Len(results) |-> results[i].value]

\* Mutation of insertLeafSplit: the new inner node is given the length of the
\* whole common prefix of the two keys, the bytes above depth included.
insertLeafSplitWholePrefix(current, key, value, depth) ==
    LET newLeafNode == NewLeafNode(key, value)
        limit == LongestCommonPrefix(current, newLeafNode, depth)
        newNode4 ==
          [NewNode4 EXCEPT
             !.prefixLen = depth + limit,
             !.prefix = memcpy(@, From(key, depth), min(limit, MAX_PREFIX_LEN))]
        with1 == AddChild(newNode4, At(current.key, depth + limit), current)
    IN  Done(AddChild(with1, At(key, depth + limit), newLeafNode), 1)

\* insertHelper where current is a leaf with another key.
insertLeafSplit(current, key, value, depth) ==
    LET newLeafNode == NewLeafNode(key, value)
        limit == LongestCommonPrefix(current, newLeafNode, depth)
    IN  IF depth > Len(key) THEN Panicked(current)
        ELSE LET newNode4 ==
                   [NewNode4 EXCEPT
                      !.prefixLen = limit,
                      !.prefix = memcpy(@, From(key, depth), min(limit, MAX_PREFIX_LEN))]
             IN  IF depth + limit >= Len(current.key) THEN Panicked(newNode4)
                 ELSE LET with1 == AddChild(newNode4, At(current.key, depth + limit), current)
                      IN  IF depth + limit >= Len(key) THEN Panicked(with1)
                          ELSE Done(AddChild(with1, At(key, depth + limit), newLeafNode), 1)

\* Mutation of insertPrefixSplit: the compressed path of current is left as it
\* was under the new inner node.
insertPrefixSplitKeepPath(current, key, value, depth, mismatch) ==
    LET newNode4 ==
          [NewNode4 EXCEPT
             !.prefixLen = mismatch,
             !.prefix = memcpy(@, current.prefix, mismatch)]
        edge == At(Minimum(current).key, depth + mismatch)
    IN  Done(AddChild(AddChild(newNode4, edge, current), At(key, depth + mismatch),
                      NewLeafNode(key, value)), 1)

\* insertHelper where the key differs from the compressed path of current at mismatch.
insertPrefixSplit(current, key, value, depth, mismatch) ==
    LET newNode4 ==
          [NewNode4 EXCEPT
             !.prefixLen = mismatch,
             !.prefix = memcpy(@, current.prefix, mismatch)]
        newLen == current.prefixLen - (mismatch + 1)
        numBytes == min(newLen, MAX_PREFIX_LEN)
        minLeaf == Minimum(current)
        short == current.prefixLen < MAX_PREFIX_LEN
        src == IF short THEN From(current.prefix, mismatch + 1)
               ELSE From(minLeaf.key, depth + mismatch + 1)
        edgePanics ==
          IF short THEN mismatch >= Len(current.prefix)
          ELSE minLeaf = Nil \/ minLeaf = PanicNode \/ depth + mismatch >= Len(minLeaf.key)
        edge == IF short THEN At(current.prefix, mismatch)
                ELSE At(minLeaf.key, depth + mismatch)
        moved == [current EXCEPT !.prefixLen = newLen,
                                 !.prefix = memmove(@, src, numBytes)]
    IN  IF edgePanics THEN Panicked(newNode4)
        ELSE IF memmovePanics(current.prefix, src, numBytes)
        THEN Panicked(AddChild(newNode4, edge, [current EXCEPT !.prefixLen = newLen]))
        ELSE LET with1 == AddChild(newNode4, edge, moved)
             IN  IF depth + mismatch >= Len(key) THEN Panicked(with1)
                 ELSE Done(AddChild(with1, At(key, depth + mismatch),
                                    NewLeafNode(key, value)), 1)

\* Mutation of insertDuplicate: the second value replaces the first.
insertDuplicateOverwrite(current, key, value) ==
    Done([current EXCEPT !.value = value], 0)

\* Mutation of insertDuplicate: the duplicate is counted.
insertDuplicateCounted(current, key, value) == Done(current, 1)

\* insertHelper where current is a leaf that holds the key: "we bail if the key
\* matches".
insertDuplicate(current, key, value) == Done(current, 0)

RECURSIVE insertHelper(_, _, _, _)
insertHelper(current, key, value, depth) ==
    IF current = Nil THEN Done(NewLeafNode(key, value), 1)
    ELSE IF IsLeaf(current)
    THEN IF IsMatch(current, key) THEN insertDuplicate(current, key, value)
         ELSE insertLeafSplit(current, key, value, depth)
    ELSE LET mismatch == IF current.prefixLen # 0
                         THEN PrefixMismatch(current, key, depth)
                         ELSE 0
             depth2 == depth + current.prefixLen
         IN  IF mismatch = PanicInt THEN Panicked(current)
             ELSE IF current.prefixLen # 0 /\ mismatch # current.prefixLen
             THEN insertPrefixSplit(current, key, value, depth, mismatch)
             ELSE IF depth2 >= Len(key) THEN Panicked(current)
             ELSE LET slot == FindChildSlot(current, At(key, depth2))
                      next == FindChild(current, At(key, depth2))
                  IN  IF next # Nil
                      THEN LET r == insertHelper(next, key, value, depth2 + 1)
                           IN  [r EXCEPT !.ref = [current EXCEPT
                                                    !.children = Put(@, slot, r.ref)]]
                      ELSE Done(AddChild(current, At(key, depth2),
                                         NewLeafNode(key, value)), 1)

RECURSIVE removeHelper(_, _, _)
removeHelper(current, key, depth) ==
    IF current = Nil THEN Done(Nil, 0)
    ELSE IF IsLeaf(current) /\ IsMatch(current, key) THEN Done(Nil, 0 - 1)
    ELSE LET mismatch == IF current.prefixLen # 0
                         THEN PrefixMismatch(current, key, depth)
                         ELSE 0
             depth2 == depth + current.prefixLen
         IN  IF mismatch = PanicInt THEN Panicked(current)
             ELSE IF current.prefixLen # 0 /\ mismatch # current.prefixLen
             THEN Done(current, 0)
             ELSE IF depth2 >= Len(key) THEN Panicked(current)
             ELSE LET slot == FindChildSlot(current, At(key, depth2))
                      next == FindChild(current, At(key, depth2))
                  IN  IF next # Nil /\ IsLeaf(next) /\ IsMatch(next, key)
                      THEN LET after == RemoveChild(current, At(key, depth2))
                           IN  IF after = PanicNode THEN Panicked(current)
                               ELSE Done(after, 0 - 1)
                      ELSE LET r == removeHelper(next, key, depth2 + 1)
                           IN  IF slot >= 0
                               THEN [r EXCEPT !.ref = [current EXCEPT
                                                        !.children = Put(@, slot, r.ref)]]
                               ELSE [r EXCEPT !.ref = current]

(***************************************************************************)
(* The clients.  Bytes 97 and 98 are 'a' and 'b'.                          *)
(***************************************************************************)
\* At most MaxStored keys are stored at a time by the general client.
MaxStored == 3

\* The fan-out client stores the one-byte keys 1..MaxFan.
MaxFan == 50

\* The value a client stores under a key the tree does not hold: the key
\* itself, as in the repository's tests (tree.Insert(w, w)).
Own(key) == <<"value", key>>

\* The value of an Insert of a key the tree already holds.
Other == <<"other">>

Run(n) == [i \in 1..n |-> 97]

\* Keys of the general client: short keys over {a, b}, one a prefix of two
\* others, and keys whose common run of 'a' is longer than the inline prefix
\* buffer.
ShortKeys ==
    {<<97>>, <<98>>, <<97, 97>>, <<97, 98>>}

LongKeys ==
    {Run(MAX_PREFIX_LEN + 1), Run(MAX_PREFIX_LEN + 1) \o <<98>>, Run(MAX_PREFIX_LEN + 2)}

Keys == ShortKeys \cup LongKeys

\* Prefixes the general client asks PrefixSearch for: every prefix of a key.
Prefixes ==
    UNION {{SubSeq(k, 1, n) : n \in 0..Len(k)} : k \in ShortKeys}
      \cup LongKeys \cup {Run(MAX_PREFIX_LEN)}

\* Keys of the fan-out client: pairwise distinct first bytes.
FanKeys == {<<b>> : b \in 1..MaxFan}

\* The fan-out client inserts the bytes that are not pivots in ascending and
\* removes them in descending order; it inserts and removes the pivot whenever
\* the number of stored keys is at most one away from a bound of a variant.
Pivots == {3}

Borders ==
    {c \in 0..NODE256MAX :
        \E t \in {NODE4MIN, NODE4MAX, NODE16MAX, NODE48MAX} : c >= t - 1 /\ c <= t + 1}

(***************************************************************************)
(* State.                                                                  *)
(*   root, size  the fields of the ArtTree                                 *)
(*   panicked    a call has panicked; the program has stopped              *)
(*   stored      the reference map: the set of <<normalized key, value>>   *)
(*               a first-writer-wins map holds after the same calls        *)
(*   last        the last Insert or Remove, and whether its key was stored *)
(*   each        the enumeration under way: the goroutine of EachChanFrom  *)
(*               (its stack of eachHelper calls), the number of nodes the  *)
(*               consumer has received, whether it still receives, the     *)
(*               number of its calls that changed the tree meanwhile, and  *)
(*               whether the channel has been closed                       *)
(***************************************************************************)
VARIABLES root, size, panicked, stored, last, each

vars == <<root, size, panicked, stored, last, each>>

\* No goroutine of EachChanFrom is alive.
NoEach ==
    [active |-> FALSE, stack |-> <<>>, delivered |-> 0, receiving |-> FALSE,
     writes |-> 0, closed |-> FALSE]

\* The enumeration after a call of the consumer that made the tree newRoot.
eachAfter(newRoot) ==
    IF each.active /\ newRoot # root THEN [each EXCEPT !.writes = @ + 1] ELSE each

StoredKeys == {p[1] : p \in stored}

IsStored(key) == ensureNullTerminatedKey(key) \in StoredKeys

\* The value of the reference map at key, NilValue if it has none.
StoredValue(key) ==
    IF IsStored(key)
    THEN (CHOOSE p \in stored : p[1] = ensureNullTerminatedKey(key))[2]
    ELSE NilValue

Init ==
    /\ root = Nil
    /\ size = 0
    /\ panicked = FALSE
    /\ stored = {}
    /\ last = [op |-> "NewArtTree", hit |-> FALSE]
    /\ each = NoEach

Insert(key0, value) ==
    LET key == ensureNullTerminatedKey(key0)
        r == insertHelper(root, key, value, 0)
    IN  /\ ~panicked
        /\ root' = r.ref
        /\ size' = size + r.delta
        /\ panicked' = r.panic
        /\ stored' = IF IsStored(key0) THEN stored ELSE stored \cup {<<key, value>>}
        /\ last' = [op |-> "Insert", hit |-> IsStored(key0)]
        /\ each' = eachAfter(r.ref)

Remove(key0) ==
    LET key == ensureNullTerminatedKey(key0)
        r == removeHelper(root, key, 0)
    IN  /\ ~panicked
        /\ root' = r.ref
        /\ size' = size + r.delta
        /\ panicked' = r.panic
        /\ stored' = {p \in stored : p[1] # key}
        /\ last' = [op |-> "Remove", hit |-> IsStored(key0)]
        /\ each' = eachAfter(r.ref)

Search(key) ==
    /\ ~panicked
    /\ panicked' = (SearchResult(root, key) = PanicValue)
    /\ UNCHANGED <<root, size, stored, last, each>>

PrefixSearch(key) ==
    /\ ~panicked
    /\ panicked' = (PrefixSearchResult(root, key) = PanicSlice)
    /\ UNCHANGED <<root, size, stored, last, each>>

\* The general client.
ClientInsert(key, value) ==
    /\ IF IsStored(key) THEN value = Other
       ELSE value = Own(key) /\ Cardinality(stored) < MaxStored
    /\ Insert(key, value)

Next ==
    \/ \E key \in Keys : \E value \in {Own(key), Other} : ClientInsert(key, value)
    \/ \E key \in Keys : Remove(key)
    \/ \E key \in Keys : Search(key)
    \/ \E key \in Prefixes : PrefixSearch(key)

Spec == Init /\ [][Next]_vars

\* The fan-out client: the bytes of the stored keys that are not pivots.
FanStored == {p[1][1] : p \in stored} \ Pivots

\* The bytes the fan-out client may insert: a pivot near a bound, or the lowest
\* byte that is neither a pivot nor stored.
FanInsertable ==
    LET free == ((1..MaxFan) \ Pivots) \ FanStored
    IN  (IF Cardinality(stored) \in Borders THEN Pivots ELSE {})
          \cup {b \in free : \A c \in free : b <= c}

\* The bytes the fan-out client may remove: a pivot near a bound, or the highest
\* stored byte that is not a pivot.
FanRemovable ==
    (IF Cardinality(stored) \in Borders THEN Pivots ELSE {})
      \cup {b \in FanStored : \A c \in FanStored : b >= c}

FanInsert(b) ==
    /\ b \in FanInsertable
    /\ Insert(<<b>>, IF IsStored(<<b>>) THEN Other ELSE Own(<<b>>))

FanRemove(b) ==
    /\ b \in FanRemovable
    /\ Remove(<<b>>)

NextFan ==
    \/ \E b \in FanInsertable : FanInsert(b)
    \/ \E b \in FanRemovable : FanRemove(b)

SpecFan == Init /\ [][NextFan]_vars

\* Keys of the long-path client: they share a run of 'a' around the length of
\* the prefix buffer and leave it at different places.
DeepKeys ==
    {<<97, 98>>,
     Run(MAX_PREFIX_LEN) \o <<98>>,
     Run(MAX_PREFIX_LEN + 1),
     Run(MAX_PREFIX_LEN + 1) \o <<98>>,
     Run(MAX_PREFIX_LEN + 2),
     Run(MAX_PREFIX_LEN + 2) \o <<98>>}

\* The long-path client inserts and removes, at most MaxStored keys at a time.
DeepInsert(key, value) ==
    /\ key \in DeepKeys
    /\ ClientInsert(key, value)

DeepRemove(key) ==
    /\ key \in DeepKeys
    /\ Remove(key)

NextDeep ==
    \/ \E key \in DeepKeys : \E value \in {Own(key), Other} : DeepInsert(key, value)
    \/ \E key \in DeepKeys : DeepRemove(key)

SpecDeep == Init /\ [][NextDeep]_vars

\* Keys of the terminator client: keys without a 0x00 byte, the same keys with
\* the terminator already on them, the empty key, and a key with a 0x00 byte
\* that is not its last.
TermKeys ==
    {<<>>, <<0>>,
     <<97>>, <<97, 0>>,
     <<97, 97>>, <<97, 97, 0>>,
     <<98>>, <<98, 0>>,
     <<97, 0, 98>>}

TermInsert(key, value) ==
    /\ key \in TermKeys
    /\ ClientInsert(key, value)

TermRemove(key) ==
    /\ key \in TermKeys
    /\ Remove(key)

NextTerm ==
    \/ \E key \in TermKeys : \E value \in {Own(key), Other} : TermInsert(key, value)
    \/ \E key \in TermKeys : TermRemove(key)

SpecTerm == Init /\ [][NextTerm]_vars

\* Keys of the full-node client: the empty key, whose stored key is the
\* terminator alone, and every one-byte key; their stored keys start with the
\* 256 different bytes.
FullKey(b) == IF b = 0 THEN <<>> ELSE <<b>>

FullStored == {p[1][1] : p \in stored}

\* The full-node client inserts the bytes in ascending order and removes them
\* in descending order.
FullInsert(b) ==
    /\ b \notin FullStored
    /\ \A c \in 0..(b - 1) : c \in FullStored
    /\ Insert(FullKey(b), Own(FullKey(b)))

FullRemove(b) ==
    /\ b \in FullStored
    /\ \A c \in FullStored : c <= b
    /\ Remove(FullKey(b))

NextFull ==
    \/ \E b \in 0..(ByteRange - 1) : FullInsert(b)
    \/ \E b \in 0..(ByteRange - 1) : FullRemove(b)

SpecFull == Init /\ [][NextFull]_vars

\* Keys of the buffer client: it has one key buffer of three bytes, writes the
\* next key into it and passes it to Insert.  Its keys hold a zero byte, so
\* ensureNullTerminatedKey appends nothing and the slice that reaches
\* NewLeafNode is the caller's buffer itself.
BufKeys == {<<x, y, 0>> : x, y \in {97, 98, 99}}

\* The tree below n after the caller has written bytes into its key buffer: a
\* key that lives in the caller's array now reads as these bytes.
RECURSIVE callerWrites(_, _)
callerWrites(n, bytes) ==
    IF n = Nil THEN Nil
    ELSE IF IsLeaf(n)
    THEN IF n.keyArray = "caller"
         THEN [n EXCEPT !.key = [i \in 1..Len(@) |-> IF i <= Len(bytes) THEN bytes[i] ELSE @[i]]]
         ELSE n
    ELSE [n EXCEPT !.children = [i \in 1..Len(@) |-> callerWrites(@[i], bytes)]]

\* The buffer client writes key into its buffer and inserts the buffer.
BufInsert(key0) ==
    LET key == ensureNullTerminatedKey(key0)
        r == insertHelper(callerWrites(root, key0), key, Own(key0), 0)
    IN  /\ ~panicked
        /\ IsStored(key0) \/ Cardinality(stored) < MaxStored
        /\ root' = r.ref
        /\ size' = size + r.delta
        /\ panicked' = r.panic
        /\ stored' = IF IsStored(key0) THEN stored ELSE stored \cup {<<key, Own(key0)>>}
        /\ last' = [op |-> "Insert", hit |-> IsStored(key0)]
        /\ each' = eachAfter(r.ref)

\* It removes with a key of its own.
BufRemove(key) ==
    /\ key \in BufKeys
    /\ Remove(key)

NextBuf ==
    \/ \E key \in BufKeys : BufInsert(key)
    \/ \E key \in BufKeys : BufRemove(key)

SpecBuf == Init /\ [][NextBuf]_vars

\* Keys of the client that enumerates over a channel, and the number of its
\* calls that may change the tree during one enumeration.
ChanKeys == {<<97>>, <<98>>, <<97, 98>>, <<98, 97>>}

MaxWrites == 1

\* The bound of the loop of eachHelper over current.
eachLen(current) ==
    IF current.nodeType = NODE48 THEN Len(current.keys) ELSE Len(current.children)

\* The node the loop indexes of path lead to from t, Nil if they lead nowhere.
RECURSIVE NodeAt(_, _)
NodeAt(t, path) ==
    IF path = <<>> THEN t
    ELSE IF t = Nil \/ Head(path) >= eachLen(t) THEN Nil
    ELSE NodeAt(eachChild(t, Head(path)), Tail(path))

\* A call of eachHelper on the stack of the goroutine: its argument as it was
\* when the call was made, the loop indexes that led to it from the start
\* node, and the index i of its loop, AtSend while it is at "dest <- current".
AtSend == 0 - 1

eachFrame(current, path) == [node |-> current, path |-> path, i |-> AtSend]

eachTop == each.stack[Len(each.stack)]

\* What a read of the fields of the current of the top call can see: the
\* goroutine reads them without synchronisation while the consumer may write
\* them (AddChild, RemoveChild, grow, shrink and replaceWith all write the node
\* in place), so it sees the node as it was when the call was made or as it
\* is in the tree now.
eachViews ==
    {eachTop.node} \cup ({NodeAt(root, eachTop.path)} \ {Nil})

\* t.EachChanFrom(t.root): makes the channel and starts the goroutine, which
\* calls eachHelper(start, nodeChan).  eachHelper returns at once on nil.
EachChanFrom ==
    /\ ~panicked
    /\ ~each.active
    /\ each' = [active |-> TRUE,
                stack |-> IF root = Nil THEN <<>> ELSE <<eachFrame(root, <<>>)>>,
                delivered |-> 0, receiving |-> TRUE, writes |-> 0,
                closed |-> FALSE]
    /\ UNCHANGED <<root, size, panicked, stored, last>>

\* "dest <- current" meets a receive of the consumer: the channel has no
\* buffer, so the send completes only when the consumer receives.
eachDeliver ==
    /\ ~panicked
    /\ each.active /\ each.receiving
    /\ each.stack # <<>> /\ eachTop.i = AtSend
    /\ each' = [each EXCEPT !.stack[Len(each.stack)].i = 0,
                            !.delivered = @ + 1]
    /\ UNCHANGED <<root, size, panicked, stored, last>>

\* The goroutine runs the loop of the top call from its index i on, up to the
\* next recursion (a call with a child that is not nil) or to the end of the
\* loop, where the call returns.
eachLoop ==
    /\ ~panicked
    /\ each.active
    /\ each.stack # <<>> /\ eachTop.i # AtSend
    /\ \E current \in eachViews :
          LET js == {j \in eachTop.i .. (eachLen(current) - 1) : eachChild(current, j) # Nil}
              j == CHOOSE j \in js : \A k \in js : j <= k
              n == Len(each.stack)
          IN  each' = IF js = {}
                      THEN [each EXCEPT !.stack = SubSeq(@, 1, n - 1)]
                      ELSE [each EXCEPT !.stack =
                                Append([@ EXCEPT ![n].i = j + 1],
                                       eachFrame(eachChild(current, j),
                                                 Append(eachTop.path, j)))]
    /\ UNCHANGED <<root, size, panicked, stored, last>>

\* eachHelper(start, nodeChan) has returned: close(nodeChan).  The range loop
\* of the consumer ends.
eachClose ==
    /\ ~panicked
    /\ each.active
    /\ each.stack = <<>>
    /\ each' = [each EXCEPT !.active = FALSE, !.receiving = FALSE,
                            !.closed = TRUE]
    /\ UNCHANGED <<root, size, panicked, stored, last>>

\* The consumer of EachChan leaves its loop before the channel is closed.  The
\* callback loop of Each never does.
eachStop ==
    /\ ~panicked
    /\ each.active /\ each.receiving
    /\ each.delivered > 0
    /\ each' = [each EXCEPT !.receiving = FALSE]
    /\ UNCHANGED <<root, size, panicked, stored, last>>

\* The consumer inserts or removes: before an enumeration, in the callback of
\* Each, or between two receives from the channel.
ChanInsert(key, value) ==
    /\ key \in ChanKeys
    /\ each.active => each.writes < MaxWrites
    /\ ClientInsert(key, value)

ChanRemove(key) ==
    /\ key \in ChanKeys
    /\ each.active => each.writes < MaxWrites
    /\ Remove(key)

NextChan ==
    \/ \E key \in ChanKeys : \E value \in {Own(key), Other} : ChanInsert(key, value)
    \/ \E key \in ChanKeys : ChanRemove(key)
    \/ EachChanFrom
    \/ eachDeliver
    \/ eachLoop
    \/ eachClose
    \/ eachStop

SpecChan == Init /\ [][NextChan]_vars

\* The goroutine of EachChanFrom is scheduled as long as it can take a step:
\* its loops and its close are always taken in the end, and a send is taken
\* in the end while the consumer stays in its receive loop.  The consumer is
\* under no obligation: it may stop, and it need not insert or remove.
SpecChanFair ==
    /\ SpecChan
    /\ WF_vars(eachLoop)
    /\ WF_vars(eachDeliver)
    /\ WF_vars(eachClose)

\* The client of one node: it makes a NODE4 and gives it a compressed path, as
\* insertHelper does where it splits a leaf, and calls AddChild and RemoveChild
\* on it.  root is the node, stored the children it has
\* been given and not taken, each under the key <<byte, 0>>; last has the byte
\* of the call as well.  The child for byte b is a leaf of its own.
NodeChild(b) == NewLeafNode(<<b, 0>>, Own(<<b>>))

NodeHas(b) == <<<<b, 0>>, Own(<<b>>)>> \in stored

\* It first fills the node and then empties it: it adds the bytes that are not
\* pivots in ascending order, and once it has added them all it removes them
\* in ascending order as well.  It adds and removes the pivots
\* (one below, one amid and one above the others) in any order whenever the
\* number of children is at most one away from a bound of a variant, also
\* removing a pivot the node has not.
NodePivots == {0, 3, ByteRange - 1}

NodeFill == (1..MaxFan) \ NodePivots

NodeFilled == {p[1][1] : p \in stored} \ NodePivots

NodeAddable ==
    LET free == {b \in NodeFill : \A c \in NodeFilled : c < b}
        first == {b \in NodeFill : \A c \in NodeFill : b <= c}
    IN  (IF Cardinality(stored) \in Borders THEN {b \in NodePivots : ~NodeHas(b)} ELSE {})
          \cup (IF NodeFilled = {} \/ first \subseteq NodeFilled
                THEN {b \in free : \A c \in free : b <= c}
                ELSE {})

NodeRemovable ==
    LET first == {b \in NodeFill : \A c \in NodeFill : b <= c}
    IN  (IF Cardinality(stored) \in Borders THEN NodePivots ELSE {})
          \cup (IF NodeFilled = NodeFill \/ ~(first \subseteq NodeFilled)
                THEN {b \in NodeFilled : \A c \in NodeFilled : b <= c}
                ELSE {})

NodePrefix == <<97, 98>>

InitNode ==
    /\ root = [NewNode4 EXCEPT !.prefixLen = Len(NodePrefix),
                               !.prefix = memcpy(@, NodePrefix, Len(NodePrefix))]
    /\ size = 0
    /\ panicked = FALSE
    /\ stored = {}
    /\ last = [op |-> "NewNode4", hit |-> FALSE, key |-> 0]
    /\ each = NoEach

NodeAddChild(b) ==
    /\ ~panicked
    /\ ~IsLeaf(root)
    /\ b \in NodeAddable
    /\ root' = AddChild(root, b, NodeChild(b))
    /\ stored' = stored \cup {<<<<b, 0>>, Own(<<b>>)>>}
    /\ last' = [op |-> "AddChild", hit |-> FALSE, key |-> b]
    /\ UNCHANGED <<size, panicked, each>>

\* A panic leaves the node with what had been written to it: nothing where the
\* index of the byte is -1, the child taken out where shrink finds no child.
NodeRemoveChild(b) ==
    LET after == RemoveChild(root, b)
    IN  /\ ~panicked
        /\ ~IsLeaf(root)
        /\ b \in NodeRemovable
        /\ panicked' = (after = PanicNode)
        /\ root' = IF after # PanicNode THEN after
                   ELSE IF Index(root, b) < 0 THEN root
                   ELSE removeAt(root, Index(root, b))
        /\ stored' = {p \in stored : p[1] # <<b, 0>>}
        /\ last' = [op |-> "RemoveChild", hit |-> NodeHas(b), key |-> b]
        /\ UNCHANGED <<size, each>>

NextNode ==
    \/ \E b \in NodeAddable : NodeAddChild(b)
    \/ \E b \in NodeRemovable : NodeRemoveChild(b)

SpecNode == InitNode /\ [][NextNode]_vars

(***************************************************************************)
(* What the claims speak of.                                               *)
(***************************************************************************)
\* The leaves Each visits, in order.
Leaves(t) == SelectSeq(Each(t), IsLeaf)

\* The inner nodes Each visits, in order.
IsInner(n) == n.nodeType \in {NODE4, NODE16, NODE48, NODE256}

InnerNodes(t) == SelectSeq(Each(t), IsInner)

NumChildren(n) == Cardinality({i \in 1..Len(n.children) : n.children[i] # Nil})

\* Byte-wise lexicographic order.
LexLess(a, b) ==
    \E i \in 1..(Len(a) + 1) :
        /\ i <= Len(b)
        /\ \A j \in 1..(i - 1) : a[j] = b[j]
        /\ i = Len(a) + 1 \/ a[i] < b[i]

RECURSIVE SortKeys(_)
SortKeys(S) ==
    IF S = {} THEN <<>>
    ELSE LET m == CHOOSE x \in S : \A y \in S \ {x} : LexLess(x, y)
         IN  <<m>> \o SortKeys(S \ {m})

\* Whether the stored key, without its terminator, starts with p.
StartsWith(key, p) ==
    /\ Len(p) <= Len(key) - 1
    /\ SubSeq(key, 1, Len(p)) = p

\* What PrefixSearch(p) is to return: the values of the stored keys that start
\* with p, in ascending key order.
ExpectedPrefixSearch(p) ==
    LET keys == SortKeys({k \in StoredKeys : StartsWith(k, p)})
    IN  [i \in 1..Len(keys) |-> StoredValue(keys[i])]

\* The variant the root has when c keys with pairwise distinct first bytes are stored.
VariantFor(c) ==
    IF c = 0 THEN Nil.nodeType
    ELSE IF c = 1 THEN LEAF
    ELSE IF c <= NODE4MAX THEN NODE4
    ELSE IF c <= NODE16MAX THEN NODE16
    ELSE IF c <= NODE48MAX THEN NODE48
    ELSE NODE256

(***************************************************************************)
(* The claims.                                                             *)
(***************************************************************************)
\* C1: after any sequence of Insert and Remove calls, Search(k) returns for every
\* key k what a first-writer-wins reference map holds for k: the value of the
\* earliest Insert since k was last absent, and nil for every key not stored.
C1_SearchAgreesWithMap ==
    \A k \in Keys : SearchResult(root, k) = StoredValue(k)

\* C2: after any sequence of Insert and Remove calls, PrefixSearch(p) returns
\* exactly the values of the stored keys that start with p, in ascending
\* lexicographic key order.
C2_PrefixSearchExact ==
    \A p \in Prefixes : PrefixSearchResult(root, p) = ExpectedPrefixSearch(p)

\* C3: every Insert, Remove, Search and PrefixSearch call returns normally: no
\* call panics in any reachable tree state.
C3_NoPanic == panicked = FALSE

\* C4: an Insert of a key that is already stored changes nothing: no node of the
\* tree and not the size (so Search still returns the first value), and it
\* returns normally.
C4_DuplicateInsertIsNoOp ==
    [][\A key \in Keys : \A value \in {Own(key), Other} :
          (last'.op = "Insert" /\ IsStored(key) /\ Insert(key, value))
             => /\ root' = root /\ size' = size /\ stored' = stored /\ ~panicked'
                /\ SearchResult(root', key) = StoredValue(key)]_vars

C4_Witness ==
    /\ last.op = "Insert" /\ last.hit
    /\ root # Nil /\ ~IsLeaf(root)
    /\ \E k \in Keys : IsStored(k) /\ SearchResult(root, k) = Own(k)

\* C5: a Remove of a key that is not stored leaves every node, every stored
\* (key, value) pair and the size unchanged.
C5_RemoveMissingIsNoOp ==
    [][\A key \in Keys :
          (last'.op = "Remove" /\ ~IsStored(key) /\ Remove(key))
             => (root' = root /\ size' = size /\ stored' = stored)]_vars

\* A Remove of a missing key has run on a tree in which the key's walk ends at a
\* leaf with another key below an inner node.
C5_Witness ==
    /\ last.op = "Remove" /\ ~last.hit
    /\ root # Nil /\ ~IsLeaf(root)
    /\ size = MaxStored

\* C6: once every inserted key has been removed again the tree is empty: size
\* is 0, the root is nil and Each visits no node.
C6_EmptyAfterRemovingAll ==
    stored = {} => (root = Nil /\ size = 0 /\ Each(root) = <<>>)

C6_Witness ==
    /\ stored = {}
    /\ last.op = "Remove" /\ last.hit

\* C7: the size counter equals the number of leaves Each visits, which equals
\* the number of distinct keys stored.
C7_SizeCountsLeaves ==
    /\ size = Len(Leaves(root))
    /\ size = Cardinality(stored)

C7_Witness ==
    /\ size = MaxStored
    /\ Len(Leaves(root)) = MaxStored
    /\ last.op = "Insert" /\ last.hit

\* C8: after every completed Insert or Remove, the number of children of every
\* inner node lies within the bounds of its variant.
C8_ChildCountWithinBounds ==
    \A i \in 1..Len(InnerNodes(root)) :
        LET n == InnerNodes(root)[i]
            c == NumChildren(n)
        IN  CASE n.nodeType = NODE4 -> c >= NODE4MIN /\ c <= NODE4MAX
              [] n.nodeType = NODE16 -> c >= NODE16MIN /\ c <= NODE16MAX
              [] n.nodeType = NODE48 -> c >= NODE48MIN /\ c <= NODE48MAX
              [] n.nodeType = NODE256 -> c >= NODE256MIN /\ c <= NODE256MAX

\* A Remove has just brought a node down to the lower bound of NODE48.
C8_Witness ==
    /\ last.op = "Remove" /\ last.hit
    /\ root.nodeType = NODE48
    /\ NumChildren(root) = NODE48MIN

\* C9: with c keys of pairwise distinct first bytes stored, the variant of the
\* root is determined by c alone.
C9_RootVariantByCount ==
    root.nodeType = VariantFor(Cardinality(stored))

\* A Remove has just shrunk the root from NODE48 to NODE16.
C9_Witness ==
    /\ last.op = "Remove" /\ last.hit
    /\ Cardinality(stored) = NODE16MAX
    /\ root.nodeType = NODE16

\* C10: the leaves Each visits appear in strictly ascending lexicographic order
\* of their keys.
C10_EachAscending ==
    LET leaves == Leaves(root)
    IN  \A i \in 1..(Len(leaves) - 1) : LexLess(leaves[i].key, leaves[i + 1].key)

\* The root is a NODE48 whose children array is not in byte order.
C10_Witness ==
    /\ root.nodeType = NODE48
    /\ \E b, c \in 1..MaxFan :
          /\ b < c
          /\ At(root.keys, c) > 0
          /\ At(root.keys, b) > At(root.keys, c)

\* The children a node holds.
Children(n) == {n.children[i] : i \in 1..Len(n.children)} \ {Nil}

\* The number of nodes of the tree below and including n.
RECURSIVE NodeCount(_)
RECURSIVE CountRange(_, _, _)
NodeCount(n) ==
    IF n = Nil THEN 0 ELSE 1 + CountRange(n.children, 1, Len(n.children) + 1)

CountRange(children, lo, hi) ==
    IF hi <= lo THEN 0
    ELSE IF hi = lo + 1 THEN NodeCount(children[lo])
    ELSE LET mid == (lo + hi) \div 2
         IN  CountRange(children, lo, mid) + CountRange(children, mid, hi)

\* C11: Each visits every node of the tree, inner nodes and leaves alike,
\* exactly once and in pre-order: the root first and every node before its
\* children (hence before all of its subtree).
C11_EachPreOrder ==
    LET nodes == Each(root)
    IN  /\ Len(nodes) = NodeCount(root)
        /\ \A i, j \in 1..Len(nodes) : i < j => nodes[i] # nodes[j]
        /\ root # Nil => nodes[1] = root
        /\ \A i \in 1..Len(nodes) : \A c \in Children(nodes[i]) :
              \E j \in (i + 1)..Len(nodes) : nodes[j] = c

\* An inner node hangs below the root, with leaves on both levels.
C11_Witness ==
    /\ root # Nil /\ IsInner(root)
    /\ \E c \in Children(root) : IsInner(c)
    /\ \E c \in Children(root) : IsLeaf(c)

\* C12: on a non-empty tree root.Minimum() is the leaf of the smallest stored
\* key and root.Maximum() the leaf of the largest; on an empty tree both are nil.
C12_MinimumMaximum ==
    IF root = Nil
    THEN Minimum(root) = Nil /\ Maximum(root) = Nil
    ELSE LET keys == SortKeys(StoredKeys)
         IN  /\ keys # <<>>
             /\ IsLeaf(Minimum(root)) /\ Minimum(root).key = keys[1]
             /\ IsLeaf(Maximum(root)) /\ Maximum(root).key = keys[Len(keys)]

\* The root is a NODE48 whose last slot in use does not hold the largest byte.
C12_Witness ==
    /\ root.nodeType = NODE48
    /\ \E b \in 1..MaxFan :
          /\ At(root.keys, b) = NumChildren(root)
          /\ Maximum(root).key[1] > b

\* C15: PrefixSearch returns the empty sequence, and does not fail, whenever no
\* stored key starts with the prefix.
C15_PrefixSearchEmpty ==
    \A p \in Prefixes :
        ExpectedPrefixSearch(p) = <<>> => PrefixSearchResult(root, p) = <<>>

\* C18: every leaf of the tree has prefixLen 0 and carries no metadata of an
\* inner node: it is as NewLeafNode made it, also after a NODE4 has collapsed
\* into it.
C18_LeavesCarryNoMetadata ==
    \A i \in 1..Len(Leaves(root)) :
        LET leaf == Leaves(root)[i]
        IN  leaf = NewLeafNode(leaf.key, leaf.value)

\* The children of an inner node with the byte each hangs under.
Edges(n) ==
    CASE n.nodeType \in {NODE4, NODE16} ->
           {<<At(n.keys, i), At(n.children, i)>> : i \in 0..(n.size - 1)}
      [] n.nodeType = NODE48 ->
           {<<b, At(n.children, At(n.keys, b) - 1)>> :
              b \in {c \in 0..(Len(n.keys) - 1) : At(n.keys, c) > 0}}
      [] n.nodeType = NODE256 ->
           {<<b, At(n.children, b)>> :
              b \in {c \in 0..(Len(n.children) - 1) : At(n.children, c) # Nil}}
      [] OTHER -> {}

\* The compressed path of the inner nodes below and including n, n at depth d.
RECURSIVE PrefixOK(_, _)
PrefixOK(n, d) ==
    IF n = Nil \/ ~IsInner(n) THEN TRUE
    ELSE LET L == n.prefixLen
             first == Leaves(n)[1].key
         IN  /\ L >= 0
             /\ \A e \in Edges(n) : \A i \in 1..Len(Leaves(e[2])) :
                   LET key == Leaves(e[2])[i].key
                   IN  /\ Len(key) > d + L
                       /\ \A j \in 0..(L - 1) : At(key, d + j) = At(first, d + j)
                       /\ At(key, d + L) = e[1]
             /\ \A j \in 0..(min(L, MAX_PREFIX_LEN) - 1) : At(n.prefix, j) = At(first, d + j)
             /\ \A e \in Edges(n) : PrefixOK(e[2], d + L + 1)

\* C19: for every inner node at depth d with prefixLen L, all leaves below it
\* agree on the key bytes [d, d+L), the byte after them is the byte the leaf's
\* branch hangs under, and the prefix buffer of the node holds the first
\* min(L, MAX_PREFIX_LEN) of these bytes.
C19_CompressedPath == PrefixOK(root, 0)

\* After a Remove the root is an inner node whose compressed path is longer
\* than its prefix buffer.
C19_Witness ==
    /\ root # Nil /\ IsInner(root)
    /\ root.prefixLen > MAX_PREFIX_LEN + 1
    /\ last.op = "Remove" /\ last.hit

\* C13: the key stored in every leaf ends with the byte 0x00, whatever byte
\* sequence was passed to Insert.
C13_StoredKeysTerminated ==
    \A i \in 1..Len(Leaves(root)) :
        LET key == Leaves(root)[i].key
        IN  key # <<>> /\ key[Len(key)] = 0

\* The keys of the terminator client without a 0x00 byte.
PlainKeys == {k \in TermKeys : ~HasZero(k)}

IsFound(v) == v # NilValue /\ v # PanicValue

\* C14: a key k without 0x00 and k followed by one 0x00 name the same entry:
\* Search finds the same under both, and once k is stored an Insert of k ++ [0]
\* is a duplicate that changes nothing and a Remove of k ++ [0] removes the
\* entry.
C14_TerminatedKeyNamesSameEntry ==
    [][\A k \in PlainKeys :
          LET k0 == k \o <<0>>
          IN  /\ SearchResult(root, k0) = SearchResult(root, k)
              /\ SearchResult(root', k0) = SearchResult(root', k)
              /\ \A v \in {Own(k0), Other} :
                    (last'.op = "Insert" /\ IsFound(SearchResult(root, k)) /\ Insert(k0, v))
                       => (root' = root /\ size' = size)
              /\ (last'.op = "Remove" /\ IsFound(SearchResult(root, k)) /\ Remove(k0))
                       => (size' = size - 1 /\ SearchResult(root', k) = NilValue)]_vars

\* A key inserted with its terminator on is found without it, after a further
\* Insert of the entry that changed nothing.
C14_Witness ==
    /\ last.op = "Insert" /\ last.hit
    /\ \E k \in PlainKeys : SearchResult(root, k) = Own(k \o <<0>>)

\* C20: the size field of every inner node equals the number of children the
\* node holds, for every number of children its variant admits.
C20_SizeCountsChildren ==
    \A i \in 1..Len(InnerNodes(root)) :
        InnerNodes(root)[i].size = NumChildren(InnerNodes(root)[i])

\* C16: the key of a leaf is a private copy: when the caller reuses its key
\* buffer for the next Insert no stored key changes, so every key inserted is
\* still found by Search under its bytes and size is the number of distinct
\* keys inserted.
C16_StoredKeysArePrivate ==
    /\ \A key \in BufKeys : SearchResult(root, key) = StoredValue(key)
    /\ size = Cardinality(stored)
    /\ {Leaves(root)[i].key : i \in 1..Len(Leaves(root))} = StoredKeys

\* MaxStored keys have gone through the one buffer.
C16_Witness ==
    /\ last.op = "Insert"
    /\ Cardinality(stored) = MaxStored
    /\ size = MaxStored

\* The goroutine of the enumeration still has reads of the tree ahead: it is in
\* a loop of eachHelper, or at a send that the consumer is going to receive.
eachReadsAhead ==
    /\ each.active
    /\ each.stack # <<>>
    /\ each.receiving \/ eachTop.i # AtSend

\* C17: the channel enumerations have read the whole traversal before the
\* consumer can act on a node they delivered: no Insert or Remove of the
\* consumer that changes the tree, after it has received a node, finds the
\* goroutine of the enumeration with reads of the tree ahead.
C17_TraversalMaterialized ==
    [][root' # root /\ each.delivered > 0 => ~eachReadsAhead]_vars

\* C21: when Remove takes the leaf child of a NODE4 root with two children and
\* the other child is an inner node, that child becomes the root with its keys
\* and children as they were; its prefixLen is child.prefixLen + n4.prefixLen
\* + 1, also above MAX_PREFIX_LEN; the bytes written to its inline prefix are
\* the first min(prefixLen, MAX_PREFIX_LEN) bytes of the path, the rest of the
\* array is as it was; every key still stored is found by Search.
C21_CollapseOntoInnerChild ==
    [][last'.op = "Remove" =>
         \A i \in {0, 1} :
            LET n4 == root
                child == At(n4.children, i)
                leaf == At(n4.children, 1 - i)
                written == min(child.prefixLen + n4.prefixLen + 1, MAX_PREFIX_LEN)
            IN  (/\ n4.nodeType = NODE4
                 /\ n4.size = 2
                 /\ IsInner(child)
                 /\ IsLeaf(leaf)
                 /\ leaf.key \in StoredKeys
                 /\ leaf.key \notin StoredKeys')
                => /\ ~panicked'
                   /\ root'.nodeType = child.nodeType
                   /\ root'.keys = child.keys
                   /\ root'.children = child.children
                   /\ root'.size = child.size
                   /\ root'.prefixLen = child.prefixLen + n4.prefixLen + 1
                   /\ Len(root'.prefix) = MAX_PREFIX_LEN
                   /\ \A j \in 1..MAX_PREFIX_LEN :
                         root'.prefix[j] = IF j <= written THEN Minimum(child).key[j]
                                          ELSE child.prefix[j]
                   /\ \A p \in stored' : SearchResult(root', p[1]) = p[2]]_vars

\* A Remove has left the two keys that share Run(MAX_PREFIX_LEN + 1) under a
\* root whose prefixLen is above MAX_PREFIX_LEN.
C21_Witness ==
    /\ last.op = "Remove" /\ last.hit
    /\ StoredKeys = {Append(Run(MAX_PREFIX_LEN + 1), 0),
                     Run(MAX_PREFIX_LEN + 1) \o <<98, 0>>}
    /\ IsInner(root)
    /\ root.prefixLen = MAX_PREFIX_LEN + 1

\* The compressed path of the inner node n that sits at depth: the prefixLen
\* bytes from depth on that the keys below n share.
FullPrefix(n, depth) == SubSeq(Minimum(n).key, depth + 1, depth + n.prefixLen)

\* The offsets at which key, read from depth on, leaves the path.
Divergences(path, key, depth) ==
    {i \in 0..(Len(path) - 1) : depth + i >= Len(key) \/ At(key, depth + i) # At(path, i)}

\* The first of them.
FirstDivergence(path, key, depth) ==
    CHOOSE i \in Divergences(path, key, depth) :
        \A j \in Divergences(path, key, depth) : i <= j

\* C22: when Insert finds that the key leaves the compressed path of the inner
\* root at offset m < prefixLen, the new root is a NODE4 with prefixLen m and
\* the first bytes of the path inline, with exactly two children under two
\* different bytes: the old root under byte m of its path, with prefixLen
\* reduced by m + 1, its inline prefix holding the path after byte m, its keys
\* and children as they were; and a new leaf with the key and the value under
\* key[m]; size grows by one.
C22_PrefixSplit ==
    [][last'.op = "Insert" =>
         \A key0 \in DeepKeys : \A value \in {Own(key0), Other} :
            LET key == ensureNullTerminatedKey(key0)
                old == root
                path == FullPrefix(old, 0)
                m == FirstDivergence(path, key, 0)
                edge == At(path, m)
                moved == FindChild(root', edge)
                added == FindChild(root', At(key, m))
            IN  (/\ IsInner(old)
                 /\ Divergences(path, key, 0) # {}
                 /\ DeepInsert(key0, value))
                => /\ ~panicked'
                   /\ root'.nodeType = NODE4
                   /\ root'.prefixLen = m
                   /\ \A j \in 1..min(m, MAX_PREFIX_LEN) : root'.prefix[j] = path[j]
                   /\ root'.size = 2
                   /\ NumChildren(root') = 2
                   /\ edge # At(key, m)
                   /\ moved.nodeType = old.nodeType
                   /\ moved.keys = old.keys
                   /\ moved.children = old.children
                   /\ moved.size = old.size
                   /\ moved.prefixLen = old.prefixLen - m - 1
                   /\ \A j \in 1..min(moved.prefixLen, MAX_PREFIX_LEN) :
                         moved.prefix[j] = path[m + 1 + j]
                   /\ added = NewLeafNode(key, value)
                   /\ size' = size + 1]_vars

\* An Insert has split a compressed path longer than MAX_PREFIX_LEN: the root
\* has the leaf of ab under b and, under a, an inner node with the rest of the
\* path.
C22_Witness ==
    /\ last.op = "Insert" /\ ~last.hit
    /\ IsInner(root)
    /\ root.prefixLen = 1
    /\ IsLeaf(FindChild(root, 98))
    /\ IsInner(FindChild(root, 97))
    /\ FindChild(root, 97).prefixLen = MAX_PREFIX_LEN - 1

\* The inner nodes below and including n, each with its depth, n at depth d.
RECURSIVE InnerAt(_, _)
InnerAt(n, d) ==
    IF n = Nil \/ ~IsInner(n) THEN {}
    ELSE {<<n, d>>} \cup UNION {InnerAt(e[2], d + n.prefixLen + 1) : e \in Edges(n)}

\* The compressed path PrefixMismatch compares with: the inline prefix up to
\* MAX_PREFIX_LEN, the key of the minimum leaf from there on.
ComparedPath(n, depth) ==
    [i \in 1..n.prefixLen |->
       IF i <= MAX_PREFIX_LEN THEN n.prefix[i] ELSE Minimum(n).key[depth + i]]

\* The index the claim gives for n, key and depth.
ExpectedMismatch(n, key, depth) ==
    LET path == ComparedPath(n, depth)
    IN  IF Divergences(path, key, depth) = {} THEN n.prefixLen
        ELSE FirstDivergence(path, key, depth)

\* Keys to probe the compressed paths with: runs of a of every length up to
\* MAX_PREFIX_LEN + 3, bare, followed by b, and each with the terminator.
ProbeKeys ==
    UNION {{Run(k), Run(k) \o <<98>>, Run(k) \o <<0>>, Run(k) \o <<98, 0>>} :
             k \in 0..(MAX_PREFIX_LEN + 3)}

\* The node of the example: prefix baz.
BazNode ==
    [NewNode4 EXCEPT !.prefix = memcpy(@, <<98, 97, 122>>, 3), !.prefixLen = 3]

\* C23: for every inner node of the tree, at its depth, and every probe key,
\* PrefixMismatch returns the smallest i < prefixLen at which the key has
\* ended or differs from byte i of the compressed path (from MAX_PREFIX_LEN on
\* the byte of the minimum leaf's key at depth + i), and prefixLen if there is
\* none; at depth 3 with prefix baz it returns 2 for foobar, 3 for foobaz and
\* 0 for fooquux.
C23_PrefixMismatch ==
    /\ \A p \in InnerAt(root, 0) : \A key \in ProbeKeys :
          PrefixMismatch(p[1], key, p[2]) = ExpectedMismatch(p[1], key, p[2])
    /\ PrefixMismatch(BazNode, <<102, 111, 111, 98, 97, 114>>, 3) = 2
    /\ PrefixMismatch(BazNode, <<102, 111, 111, 98, 97, 122>>, 3) = 3
    /\ PrefixMismatch(BazNode, <<102, 111, 111, 113, 117, 117, 120>>, 3) = 0

\* The root has a compressed path of MAX_PREFIX_LEN + 2 bytes and a probe key
\* leaves it after MAX_PREFIX_LEN + 1 of them.
C23_Witness ==
    /\ IsInner(root)
    /\ root.prefixLen = MAX_PREFIX_LEN + 2
    /\ PrefixMismatch(root, Run(MAX_PREFIX_LEN + 1) \o <<98, 0>>, 0) = MAX_PREFIX_LEN + 1

\* The bytes the node client has given the node and not taken.
NodeBytes == {p[1][1] : p \in stored}

\* C24: in a NODE4 and a NODE16 the first size entries of keys are strictly
\* ascending, they are the bytes of the children added and not removed, and
\* children[i] is the child that was added under keys[i].
C24_KeysSorted ==
    root.nodeType \in {NODE4, NODE16} =>
       /\ root.size <= Len(root.keys)
       /\ \A i \in 0..(root.size - 1) : \A j \in 0..(root.size - 1) :
             i < j => At(root.keys, i) < At(root.keys, j)
       /\ {At(root.keys, i) : i \in 0..(root.size - 1)} = NodeBytes
       /\ \A i \in 0..(root.size - 1) :
             At(root.children, i) = NodeChild(At(root.keys, i))

\* A NODE16 holds the three pivots, the last of which came in after bytes
\* above and below it.
C24_Witness ==
    /\ root.nodeType = NODE16
    /\ root.size = NODE16MAX
    /\ NodePivots \subseteq NodeBytes
    /\ last.op = "AddChild" /\ last.key = 3

\* The bytes a NODE48 has an index entry for, and the slot of each.
Indexed(n) == {b \in 0..(Len(n.keys) - 1) : At(n.keys, b) # 0}

SlotOf(n, b) == At(n.keys, b) - 1

\* The slots of a NODE48 that hold no child.
FreeSlots(n) == {i \in 0..(Len(n.children) - 1) : At(n.children, i) = Nil}

\* In a NODE48 each index entry is 0 or in 1..48, every entry that is not 0
\* points to a slot with a child, the child that was added under the byte, no
\* two bytes share a slot, and size is the number of entries that are not 0;
\* the bytes with an entry are those added and not removed.
Node48OK(n) ==
    /\ Len(n.keys) = ByteRange
    /\ Len(n.children) = NODE48MAX
    /\ \A b \in 0..(ByteRange - 1) : At(n.keys, b) \in 0..NODE48MAX
    /\ \A b \in Indexed(n) : At(n.children, SlotOf(n, b)) = NodeChild(b)
    /\ \A b \in Indexed(n) : \A c \in Indexed(n) : b # c => SlotOf(n, b) # SlotOf(n, c)
    /\ Cardinality(Indexed(n)) = n.size
    /\ Cardinality(FreeSlots(n)) = NODE48MAX - n.size
    /\ Indexed(n) = NodeBytes

\* An AddChild on a NODE48 that stays a NODE48 puts the child into the lowest
\* slot that holds none, so into a slot that a RemoveChild has freed when there
\* is one, and leaves the entries and the slots of the other bytes as they were.
Node48Reuse ==
    (/\ root.nodeType = NODE48
     /\ root'.nodeType = NODE48
     /\ last'.op = "AddChild"
     /\ last' # last)
    => LET b == last'.key
           slot == SlotOf(root', b)
       IN  /\ slot \in FreeSlots(root)
           /\ \A i \in FreeSlots(root) : slot <= i
           /\ \A c \in 0..(ByteRange - 1) : c # b => At(root'.keys, c) = At(root.keys, c)
           /\ \A i \in 0..(NODE48MAX - 1) :
                 i # slot => At(root'.children, i) = At(root.children, i)

\* C25: every NODE48 reached by AddChild, RemoveChild, grow from a NODE16 and
\* shrink from a NODE256 has a well-formed index (Node48OK), and an AddChild
\* reuses a slot that RemoveChild has freed without disturbing the other
\* mappings (Node48Reuse).
C25_Node48Index ==
    /\ [](root.nodeType = NODE48 => Node48OK(root))
    /\ [][Node48Reuse]_vars

\* An AddChild has put a child into a slot below the highest one in use: a slot
\* that a RemoveChild had freed.
C25_Witness ==
    /\ root.nodeType = NODE48
    /\ last.op = "AddChild"
    /\ FreeSlots(root) = (root.size)..(NODE48MAX - 1)
    /\ SlotOf(root, last.key) < root.size - 1

\* b has the same child in n and in m, for every byte b.
SameChildren(n, m) ==
    \A b \in 0..(ByteRange - 1) : FindChild(m, b) = FindChild(n, b)

\* n and m have the same compressed path.
SamePath(n, m) == m.prefix = n.prefix /\ m.prefixLen = n.prefixLen

\* grow on a node that is full, as AddChild calls it: the next larger variant
\* with the same children, compressed path and size.
GrowKeeps ==
    (root.nodeType \in {NODE4, NODE16, NODE48} /\ root.size = NumChildren(root)
       /\ NumChildren(root) = Len(root.children))
    => LET other == grow(root)
       IN  /\ other.nodeType = root.nodeType + 1
           /\ SameChildren(root, other)
           /\ SamePath(root, other)
           /\ other.size = root.size

\* A call that changes the variant of the node: AddChild leaves the next
\* larger, RemoveChild the next smaller variant with the same compressed path,
\* the same child for every byte but the one of the call, and the size after
\* the call.
VariantStepKeeps ==
    (/\ IsInner(root) /\ IsInner(root')
     /\ root'.nodeType # root.nodeType)
    => LET b == last'.key
       IN  /\ last'.op = "AddChild" =>
                 /\ root'.nodeType = root.nodeType + 1
                 /\ root'.size = root.size + 1
                 /\ FindChild(root, b) = Nil
                 /\ FindChild(root', b) = NodeChild(b)
           /\ last'.op = "RemoveChild" =>
                 /\ root'.nodeType = root.nodeType - 1
                 /\ root'.size = root.size - 1
                 /\ FindChild(root, b) = NodeChild(b)
                 /\ FindChild(root', b) = Nil
           /\ \A c \in 0..(ByteRange - 1) :
                 c # b => FindChild(root', c) = FindChild(root, c)
           /\ SamePath(root, root')

\* C26: a change of variant keeps the child of every byte and the header:
\* grow gives the next larger variant with the same children, prefix,
\* prefixLen and size (GrowKeeps), and across a call that grows or shrinks the
\* node only the byte of the call changes its child, the size follows the
\* call, prefix and prefixLen stay, and the variant moves by one
\* (VariantStepKeeps).
C26_VariantChangeKeepsMapping ==
    /\ []GrowKeeps
    /\ [][VariantStepKeeps]_vars

\* A RemoveChild has just made a NODE48 of a NODE256.
C26_Witness ==
    /\ root.nodeType = NODE48
    /\ root.size = NODE48MAX
    /\ last.op = "RemoveChild" /\ last.hit
    /\ ~panicked
    /\ root.prefixLen = Len(NodePrefix)

\* The bytes that have no child in n and have one in m.
AddedBytes(n, m) ==
    {b \in 0..(ByteRange - 1) : FindChild(n, b) = Nil /\ FindChild(m, b) # Nil}

\* C27: across a call that adds a child to the inner node root under a byte b
\* that had none (AddChild grows the node first when it is full), FindChild(b)
\* yields the new child, which sits at position Index(b) of the children, the
\* child of every other byte is as before, a byte that has been given no child
\* has none, and the size field grows by one.
C27_AddChildThenFindChild ==
    [][(/\ IsInner(root) /\ IsInner(root')
        /\ NumChildren(root') = NumChildren(root) + 1)
       => \E b \in AddedBytes(root, root') :
             /\ IsLeaf(FindChild(root', b))
             /\ FindChild(root', b).key[1] = b
             /\ Index(root', b) >= 0
             /\ At(root'.children, Index(root', b)) = FindChild(root', b)
             /\ \A c \in 0..(ByteRange - 1) :
                   /\ c # b => FindChild(root', c) = FindChild(root, c)
                   /\ c \notin {p[1][1] : p \in stored'} => FindChild(root', c) = Nil
             /\ root'.size = root.size + 1]_vars

\* C28: a RemoveChild for a byte the inner node has no child for returns
\* normally and leaves the keys, the children and the size of the node as
\* they were.
C28_RemoveAbsentChild ==
    [][(last'.op = "RemoveChild" /\ last' # last /\ ~last'.hit)
       => /\ ~panicked'
          /\ root'.nodeType = root.nodeType
          /\ root'.keys = root.keys
          /\ root'.children = root.children
          /\ root'.size = root.size]_vars

\* The depth argument of every call of searchHelper on a node, in call order,
\* for the search of key below current.
RECURSIVE searchDepths(_, _, _)
searchDepths(current, key, depth) ==
    IF current = Nil THEN <<>>
    ELSE LET maxKeyIndex == Len(key) - 1
             prefixMismatch == PrefixMismatch(current, key, depth)
             depth2 == depth + current.prefixLen
         IN  <<depth>> \o
             (IF depth > maxKeyIndex THEN <<>>
              ELSE IF /\ IsLeaf(current)
                      /\ Len(current.key) >= Len(key)
                      /\ key = SubSeq(current.key, 1, Len(key))
              THEN <<>>
              ELSE IF prefixMismatch = PanicInt THEN <<>>
              ELSE IF prefixMismatch = current.prefixLen /\ depth2 <= maxKeyIndex
              THEN searchDepths(FindChild(current, At(key, depth2)), key, depth2 + 1)
              ELSE <<>>)

\* The same for insertHelper.
RECURSIVE insertDepths(_, _, _)
insertDepths(current, key, depth) ==
    IF current = Nil THEN <<>>
    ELSE LET mismatch == IF current.prefixLen # 0
                         THEN PrefixMismatch(current, key, depth)
                         ELSE 0
             depth2 == depth + current.prefixLen
         IN  <<depth>> \o
             (IF IsLeaf(current) THEN <<>>
              ELSE IF mismatch = PanicInt THEN <<>>
              ELSE IF current.prefixLen # 0 /\ mismatch # current.prefixLen THEN <<>>
              ELSE IF depth2 >= Len(key) THEN <<>>
              ELSE insertDepths(FindChild(current, At(key, depth2)), key, depth2 + 1))

\* The same for removeHelper.
RECURSIVE removeDepths(_, _, _)
removeDepths(current, key, depth) ==
    IF current = Nil THEN <<>>
    ELSE LET mismatch == IF current.prefixLen # 0
                         THEN PrefixMismatch(current, key, depth)
                         ELSE 0
             depth2 == depth + current.prefixLen
             next == FindChild(current, At(key, depth2))
         IN  <<depth>> \o
             (IF IsLeaf(current) /\ IsMatch(current, key) THEN <<>>
              ELSE IF mismatch = PanicInt THEN <<>>
              ELSE IF current.prefixLen # 0 /\ mismatch # current.prefixLen THEN <<>>
              ELSE IF depth2 >= Len(key) THEN <<>>
              ELSE IF next # Nil /\ IsLeaf(next) /\ IsMatch(next, key) THEN <<>>
              ELSE removeDepths(next, key, depth2 + 1))

\* The leaves below n with the depth a descent reaches them at, where n is
\* reached at depth.
RECURSIVE LeafDepths(_, _)
LeafDepths(n, depth) ==
    IF n = Nil THEN {}
    ELSE IF IsLeaf(n) THEN {<<depth, n.key>>}
    ELSE UNION {LeafDepths(n.children[i], depth + n.prefixLen + 1) :
                  i \in DOMAIN n.children}

Increasing(depths) ==
    \A i \in 1..Len(depths) - 1 : depths[i] < depths[i + 1]

\* The keys the clients pass to Search, Insert and Remove.
DescentKeys == Keys \cup DeepKeys

\* C29: a Search, an Insert and a Remove visit at most len(key) + 1 nodes for
\* the normalized key, with a depth argument that grows at every recursive
\* step, and every leaf of the tree is reached at a depth that is at most the
\* length of its key.
C29_DescentBounded ==
    /\ \A key0 \in DescentKeys :
         LET key == ensureNullTerminatedKey(key0)
         IN  \A depths \in {searchDepths(root, key, 0), insertDepths(root, key, 0),
                             removeDepths(root, key, 0)} :
               /\ Len(depths) <= Len(key) + 1
               /\ Increasing(depths)
    /\ \A l \in LeafDepths(root, 0) : l[1] <= Len(l[2])

\* A descent that visits three nodes, the last one a leaf below two inner
\* nodes, and a leaf that sits deeper than the inline prefix is long.
C29_Witness ==
    /\ \E key0 \in DescentKeys :
         /\ Len(searchDepths(root, ensureNullTerminatedKey(key0), 0)) >= 3
         /\ Len(removeDepths(root, ensureNullTerminatedKey(key0), 0)) >= 2
         /\ Len(insertDepths(root, ensureNullTerminatedKey(key0), 0)) >= 3
    /\ \E l \in LeafDepths(root, 0) : l[1] > MAX_PREFIX_LEN

\* The goroutine of the enumeration is parked at "dest <- current" and no
\* receive will meet the send.
eachBlocked ==
    /\ each.active /\ ~each.receiving
    /\ each.stack # <<>> /\ eachTop.i = AtSend

\* C30: the goroutine an enumeration starts finishes its traversal and closes
\* its channel, once and after the last send, whether or not the consumer
\* keeps receiving until then; it is never left parked at a send.  (A panic
\* of a call of the consumer ends the program and with it the goroutine.)
C30_ProducerCloses ==
    /\ [][(each'.closed /\ ~each.closed) => (each.active /\ each.stack = <<>>)]_vars
    /\ (each.active /\ ~panicked) ~> (each.closed \/ panicked)

\* The same for a consumer that receives until the channel is closed.
ProducerClosesForReceiver ==
    (each.active /\ ~panicked) ~> (each.closed \/ panicked \/ eachBlocked)

====
